---- MODULE Spec2Model ----
(***************************************************************************)
(* The quiz-taking session of the Dashboard class (src/unnamed/part_000):  *)
(* the fields currentQuiz, currentQuestionIndex and userAnswers, the part  *)
(* of the quiz modal's DOM that the handlers read and write, the requests  *)
(* in flight and the pending setTimeout callbacks.                         *)
(*                                                                         *)
(* Every handler runs to completion on the event loop; an await splits a   *)
(* method into the step before the request and the step that handles the   *)
(* response, and any other event may run in between.  A control of the     *)
(* modal can be used when the modal has the class 'active', the control is *)
(* in the modal body and the code has not hidden or disabled it.  The      *)
(* loading overlay is a class toggled by showLoading/hideLoading that no   *)
(* handler consults, so it guards nothing here.                            *)
(***************************************************************************)
EXTENDS Integers, Sequences, FiniteSets, TLC

\* ------------------------------------------------------------------ bounds
\* requests (GET /quizzes/<id>, POST /quizzes/<id>/submit) in flight at once
MaxInFlight == 1
\* pending setTimeout(resetQuiz, 300) callbacks at once
MaxTimers == 1
\* The longest question text, prefix apart, the fill-in-blank case is evaluated on.
MaxTextLen == 3

\* ------------------------------------------------------------ JS values
\* A JavaScript value held in userAnswers or in a per-blank array.
Null == [t |-> "null", n |-> 0, s |-> <<>>, a |-> <<>>]
Undefined == [t |-> "undefined", n |-> 0, s |-> <<>>, a |-> <<>>]
Num(i) == [t |-> "number", n |-> i, s |-> <<>>, a |-> <<>>]
Str(s) == [t |-> "string", n |-> 0, s |-> s, a |-> <<>>]
Arr(a) == [t |-> "array", n |-> 0, s |-> <<>>, a |-> a]

IsArray(v) == v.t = "array"

\* arr[i] with a 0-based i: undefined beyond the end.
ArrayGet(arr, i) == IF i >= 0 /\ i < Len(arr) THEN arr[i + 1] ELSE Undefined

\* arr[i] = v with a 0-based i: an assignment beyond the end grows the array
\* and leaves holes (undefined) in between.
ArraySet(arr, i, v) ==
    IF i < Len(arr)
    THEN [arr EXCEPT ![i + 1] = v]
    ELSE arr \o [k \in 1..(i - Len(arr)) |-> Undefined] \o <<v>>

\* new Array(n).fill(v)
ArrayFill(n, v) == [k \in 1..n |-> v]

\* Strings are sequences of one-character strings.
IsSpace(c) == c = " "

RECURSIVE TrimStart(_)
TrimStart(s) ==
    IF s # <<>> /\ IsSpace(Head(s)) THEN TrimStart(Tail(s)) ELSE s

RECURSIVE TrimEnd(_)
TrimEnd(s) ==
    IF s # <<>> /\ IsSpace(s[Len(s)]) THEN TrimEnd(SubSeq(s, 1, Len(s) - 1)) ELSE s

\* String.prototype.trim
Trim(s) == TrimEnd(TrimStart(s))

\* String.prototype.toLowerCase on the letters the prefixes use.
LowerChar(c) ==
    CASE c = "F" -> "f" [] c = "I" -> "i" [] c = "L" -> "l" [] c = "N" -> "n"
      [] c = "T" -> "t" [] c = "H" -> "h" [] c = "E" -> "e" [] c = "B" -> "b"
      [] c = "A" -> "a" [] c = "K" -> "k" [] c = "S" -> "s" [] OTHER -> c

ToLowerCase(s) == [k \in 1..Len(s) |-> LowerChar(s[k])]

StartsWith(s, p) == Len(p) <= Len(s) /\ SubSeq(s, 1, Len(p)) = p

\* ------------------------------------------------- fill-in-blank parsing
fillInPrefixes ==
    << <<"F","i","l","l"," ","i","n"," ","t","h","e"," ","b","l","a","n","k",":">>,
       <<"F","i","l","l"," ","i","n"," ","t","h","e"," ","b","l","a","n","k","s",":">>,
       <<"f","i","l","l"," ","i","n"," ","t","h","e"," ","b","l","a","n","k",":">>,
       <<"f","i","l","l"," ","i","n"," ","t","h","e"," ","b","l","a","n","k","s",":">> >>

\* The first prefix that matches case-insensitively is cut off and the rest trimmed.
RECURSIVE StripPrefix(_, _)
StripPrefix(text, k) ==
    IF k > Len(fillInPrefixes) THEN text
    ELSE IF StartsWith(ToLowerCase(text), ToLowerCase(fillInPrefixes[k]))
         THEN Trim(SubSeq(text, Len(fillInPrefixes[k]) + 1, Len(text)))
         ELSE StripPrefix(text, k + 1)

CleanQuestionText(text) == StripPrefix(text, 1)

\* A count of the underscores, not of their runs.
MatchCountEach(text) == Cardinality({k \in 1..Len(text) : text[k] = "_"})

\* (text.match(/_+/g) || []).length: the maximal runs of underscores.
MatchCount(text) ==
    Cardinality({k \in 1..Len(text) :
                    text[k] = "_" /\ (k = 1 \/ text[k - 1] # "_")})

\* text.split(/_+/g): the pieces between the runs, empty pieces included.
RECURSIVE SplitBlanks(_, _)
SplitBlanks(text, piece) ==
    IF text = <<>> THEN <<piece>>
    ELSE IF Head(text) = "_"
         THEN IF Len(text) > 1 /\ text[2] = "_"
              THEN SplitBlanks(Tail(text), piece)
              ELSE <<piece>> \o SplitBlanks(Tail(text), <<>>)
         ELSE SplitBlanks(Tail(text), Append(piece, Head(text)))

BlankCount(question) == MatchCount(CleanQuestionText(question.text))

QuestionParts(question) == SplitBlanks(CleanQuestionText(question.text), <<>>)

\* The text inputs renderCurrentQuestion emits: one after every part but the last.
BlankInputs(question) == 0..(Len(QuestionParts(question)) - 2)

\* ------------------------------------------------------- quiz payloads
\* What GET /quizzes/<id> returns: the questions of each quiz, in order.
MultipleChoice(id, options) ==
    [id |-> id, type |-> "multiple-choice", options |-> options, text |-> <<"q">>]
TrueFalse(id) ==
    [id |-> id, type |-> "true-false", options |-> <<>>, text |-> <<"q">>]
ShortAnswer(id) ==
    [id |-> id, type |-> "short-answer", options |-> <<>>, text |-> <<"q">>]
FillInBlank(id, text) ==
    [id |-> id, type |-> "fill-in-blank", options |-> <<>>, text |-> text]

\* A question whose type the switch of renderCurrentQuestion does not know.
UnknownType(id) ==
    [id |-> id, type |-> "essay", options |-> <<>>, text |-> <<"q">>]
\* question.text is undefined.
NoText == <<"undefined">>

NoQuiz == "null"
\* Quizzes whose payload is as the page expects it.
QuizIds == {"q1", "q2", "q3"}
\* Quizzes whose payload is not: q4 has no questions list, q5 a question of an
\* unknown type, q6 a multiple-choice question without options, q7 a
\* fill-in-blank question without text.
MalformedIds == {"q4", "q5", "q6", "q7"}
AllQuizIds == QuizIds \cup MalformedIds

\* quiz.questions is an array.
HasQuestions(quiz) == quiz # "q4"

Questions(quiz) ==
    CASE quiz = "q1" ->
           << MultipleChoice(11, <<"A", "B">>),
              ShortAnswer(12) >>
      [] quiz = "q2" ->
           << TrueFalse(21),
              FillInBlank(22, <<"_", "_", " ", "i", "s", " ", "_">>) >>
      [] quiz = "q3" ->
           << FillInBlank(31, <<"F","I","L","L"," ","i","n"," ","t","h","e"," ",
                                "b","l","a","n","k",":"," ","x"," ","_">>) >>
      [] quiz = "q5" -> << UnknownType(51) >>
      [] quiz = "q6" -> << MultipleChoice(61, <<>>) >>
      [] quiz = "q7" -> << FillInBlank(71, NoText) >>
      [] OTHER -> <<>>

Length(quiz) == Len(Questions(quiz))

\* What the user may type into a text input.
RawTexts == { <<" ">>, <<"a">>, <<" ", "a", " ">> }

\* ------------------------------------------------------------------ state
VARIABLES
    currentQuiz,            \* this.currentQuiz: the id of the loaded quiz, or NoQuiz
    currentQuestionIndex,   \* this.currentQuestionIndex, 0-based
    userAnswers,            \* this.userAnswers
    modalActive,            \* #quizTakingModal has the class 'active'
    modalBody,              \* what .modal-body holds: the "quiz" form or the "results"
    quizContainer,          \* the question rendered in #quizContainer
    navButtons,             \* #prevQuestion.disabled, display of #nextQuestion and #submitQuiz
    questionProgress,       \* the text of #questionProgress: <<shown, total>>
    resultsShown,           \* the score the results view displays
    loadingActive,          \* #loadingOverlay has the class 'active'
    pendingLoads,           \* GET /quizzes/<id> requests in flight, per quiz
    pendingSubmits,         \* POST /quizzes/<id>/submit requests in flight
    pendingRevalidations,   \* POST /quiz-attempts/<id>/revalidate requests in flight, per caller
    superseded,             \* per quiz, the loads in flight that were requested before the
                            \* latest takeQuiz or before a close of the modal
    resetTimers,            \* pending setTimeout(resetQuiz, 300) callbacks
    outcome,                \* how the last handler ended: "ok", "noop" (guard false, early return),
                            \* "TypeError" (uncaught), "caught" (thrown and caught),
                            \* "notified" (apiCall threw and showed the error) or
                            \* "rejected" (apiCall showed the server's rejection)
    touched,                \* the indices an answer setter wrote since the array was allocated
    pureCall                \* a method that computes from its argument alone, evaluated apart
                            \* from a session: [method, argument, results]

session == <<currentQuiz, currentQuestionIndex, userAnswers, touched>>
dom == <<modalBody, quizContainer, navButtons, questionProgress, resultsShown>>
inflight == <<pendingLoads, pendingSubmits, pendingRevalidations>>
vars == <<currentQuiz, currentQuestionIndex, userAnswers, modalActive, modalBody,
          quizContainer, navButtons, questionProgress, resultsShown, loadingActive,
          pendingLoads, pendingSubmits, pendingRevalidations, superseded,
          resetTimers, outcome, touched, pureCall>>

\* Everything but pureCall.
sessionVars == <<currentQuiz, currentQuestionIndex, userAnswers, modalActive, modalBody,
                 quizContainer, navButtons, questionProgress, resultsShown,
                 loadingActive, pendingLoads, pendingSubmits, pendingRevalidations,
                 superseded, resetTimers, outcome, touched>>

\* No method is being evaluated apart from the session.
NoCall == [method |-> "none", argument |-> <<>>, results |-> <<>>]

\* The two methods that request a re-validation.
RevalidationCallers == {"revalidateQuizAttempt", "revalidateQuiz"}

NoRender == [quiz |-> NoQuiz, index |-> 0]
\* The values the results views interpolate (score, correct and total in the
\* results of a submission, oldScore and newScore in those of a
\* re-validation); Null where the body shows no such value.
NoResults == [score |-> Null, correct |-> Null, total |-> Null,
              oldScore |-> Null, newScore |-> Null]

\* The question whose inputs are in #quizContainer.
Rendered == Questions(quizContainer.quiz)[quizContainer.index + 1]
HasRender == quizContainer # NoRender

\* The navigation markup resetQuizModalBody writes.
FreshButtons == [prevDisabled |-> TRUE, nextDisplayed |-> TRUE, submitDisplayed |-> FALSE]
\* The results view has no navigation buttons.
NoButtons == [prevDisabled |-> TRUE, nextDisplayed |-> FALSE, submitDisplayed |-> FALSE]

InitSession ==
    /\ currentQuiz = NoQuiz
    /\ currentQuestionIndex = 0
    /\ userAnswers = <<>>
    /\ modalActive = FALSE
    /\ modalBody = "quiz"
    /\ quizContainer = NoRender
    /\ navButtons = FreshButtons
    /\ questionProgress = <<0, 0>>
    /\ resultsShown = NoResults
    /\ loadingActive = FALSE
    /\ pendingLoads = [q \in AllQuizIds |-> 0]
    /\ pendingSubmits = <<>>
    /\ pendingRevalidations = [caller \in RevalidationCallers |-> 0]
    /\ superseded = [q \in AllQuizIds |-> 0]
    /\ resetTimers = 0
    /\ outcome = "ok"
    /\ touched = {}

Init == InitSession /\ pureCall = NoCall

\* --------------------------------------------------------- pure helpers
\* The loads in flight, over all quizzes.
LoadsInFlight ==
    pendingLoads["q1"] + pendingLoads["q2"] + pendingLoads["q3"] + pendingLoads["q4"]
      + pendingLoads["q5"] + pendingLoads["q6"] + pendingLoads["q7"]
RevalidationsInFlight ==
    pendingRevalidations["revalidateQuizAttempt"] + pendingRevalidations["revalidateQuiz"]
RequestsInFlight == LoadsInFlight + Len(pendingSubmits) + RevalidationsInFlight

RemoveAt(seq, i) == SubSeq(seq, 1, i - 1) \o SubSeq(seq, i + 1, Len(seq))

\* renderCurrentQuestion throws a TypeError: there is no question at the index
\* (question.type of undefined) or a fill-in-blank question has no text
\* (toLowerCase of undefined).
RenderThrows(quiz, index) ==
    \/ index < 0
    \/ index >= Length(quiz)
    \/ /\ Questions(quiz)[index + 1].type = "fill-in-blank"
       /\ Questions(quiz)[index + 1].text = NoText

\* renderCurrentQuestion filling the per-blank array with null instead of ''.
RenderAnswersNullFilled(quiz, index, answers) ==
    LET question == Questions(quiz)[index + 1] IN
    IF question.type = "fill-in-blank" /\ ~IsArray(ArrayGet(answers, index))
    THEN ArraySet(answers, index, Arr(ArrayFill(BlankCount(question), Null)))
    ELSE answers

\* renderCurrentQuestion's only write to userAnswers: showing a fill-in-blank
\* question whose slot is not an array stores new Array(blankCount).fill('').
RenderAnswers(quiz, index, answers) ==
    LET question == Questions(quiz)[index + 1] IN
    IF question.type = "fill-in-blank" /\ ~IsArray(ArrayGet(answers, index))
    THEN ArraySet(answers, index, Arr(ArrayFill(BlankCount(question), Str(<<>>))))
    ELSE answers

UpdateNavigationButtonsAlwaysSubmit(quiz, index) ==
    [prevDisabled |-> index = 0,
     nextDisplayed |-> ~(index = Length(quiz) - 1),
     submitDisplayed |-> TRUE]

UpdateNavigationButtons(quiz, index) ==
    [prevDisabled |-> index = 0,
     nextDisplayed |-> ~(index = Length(quiz) - 1),
     submitDisplayed |-> index = Length(quiz) - 1]

\* updateQuizProgress writes 'index+1 of total'.
ProgressText(quiz, index) == <<index + 1, Length(quiz)>>

\* this.userAnswers[index] !== null
NotNull(v) == v # Null

\* A falsy slot: what `if (this.userAnswers[index])` would skip.
Truthy(v) ==
    /\ v.t \notin {"null", "undefined"}
    /\ ~(v.t = "number" /\ v.n = 0)
    /\ ~(v.t = "string" /\ v.s = <<>>)

IncludedTruthy(v) == Truthy(v)

\* The test submitQuiz applies to a slot before pushing it.
Included(v) == NotNull(v)

\* submitQuiz's forEach over currentQuiz.questions, from position k on.
RECURSIVE BuildAnswers(_, _, _)
BuildAnswers(quiz, answers, k) ==
    IF k > Length(quiz) THEN <<>>
    ELSE (IF Included(ArrayGet(answers, k - 1))
          THEN << [question_id |-> Questions(quiz)[k].id,
                   selected_option |-> ArrayGet(answers, k - 1)] >>
          ELSE <<>>)
         \o BuildAnswers(quiz, answers, k + 1)

\* Math.round(100 * correct / total), as the Grading Service reports the score.
ServerScore(correct, total) == (200 * correct + total) \div (2 * total)

\* ------------------------------------------------------ handler pieces
\* resetQuizState
ResetQuizState ==
    /\ currentQuiz' = NoQuiz
    /\ currentQuestionIndex' = 0
    /\ userAnswers' = <<>>
    /\ touched' = {}

\* resetQuizModalBody: the quiz form, empty, with the navigation as first written.
ResetQuizModalBody ==
    /\ modalBody' = "quiz"
    /\ quizContainer' = NoRender
    /\ navButtons' = FreshButtons
    /\ questionProgress' = <<0, 0>>
    /\ resultsShown' = NoResults

\* renderCurrentQuestion; updateQuizProgress (which ends in updateNavigationButtons),
\* for a loaded quiz, on the answers array `answers`.
ShowQuestion(quiz, index, answers) ==
    /\ userAnswers' = RenderAnswers(quiz, index, answers)
    /\ quizContainer' = [quiz |-> quiz, index |-> index]
    /\ questionProgress' = ProgressText(quiz, index)
    /\ navButtons' = UpdateNavigationButtons(quiz, index)

\* The controls of the quiz form can be used.
FormUsable == modalActive /\ modalBody = "quiz"

\* ------------------------------------------------------------- takeQuiz
\* The response of one of the loads of quizId in flight arrives: that of a
\* superseded request or that of the latest one.
LoadLeaves(quizId) ==
    /\ pendingLoads[quizId] > 0
    /\ pendingLoads' = [pendingLoads EXCEPT ![quizId] = @ - 1]
    /\ \E late \in BOOLEAN :
          /\ late => superseded[quizId] > 0
          /\ ~late => pendingLoads[quizId] > superseded[quizId]
          /\ superseded' = IF late THEN [superseded EXCEPT ![quizId] = @ - 1]
                                   ELSE superseded

\* takeQuiz up to its await: showLoading, resetQuizState, the request.
TakeQuiz(quizId) ==
    /\ RequestsInFlight < MaxInFlight
    /\ loadingActive' = TRUE
    /\ ResetQuizState
    /\ pendingLoads' = [pendingLoads EXCEPT ![quizId] = @ + 1]
    /\ superseded' = pendingLoads
    /\ outcome' = "ok"
    /\ UNCHANGED <<modalActive, dom, pendingSubmits, pendingRevalidations, resetTimers, pureCall>>

\* takeQuiz after the await, the request having succeeded.  The statements run
\* in order until one throws; the catch block only hides the overlay, so what
\* ran before the throw stays: quiz.questions.length throws after currentQuiz
\* and the index are assigned, renderCurrentQuestion throws after userAnswers
\* is allocated, the body reset and the modal opened.
TakeQuizLoaded(quizId) ==
    /\ LoadLeaves(quizId)
    /\ currentQuiz' = quizId
    /\ currentQuestionIndex' = 0
    /\ IF ~HasQuestions(quizId)
       THEN /\ outcome' = "caught"
            /\ UNCHANGED <<userAnswers, touched, modalActive, dom>>
       ELSE /\ touched' = {}
            /\ modalBody' = "quiz"
            /\ resultsShown' = NoResults
            /\ modalActive' = TRUE
            /\ IF RenderThrows(quizId, 0)
               THEN /\ userAnswers' = ArrayFill(Length(quizId), Null)
                    /\ quizContainer' = NoRender
                    /\ navButtons' = FreshButtons
                    /\ questionProgress' = <<0, 0>>
                    /\ outcome' = "caught"
               ELSE /\ ShowQuestion(quizId, 0, ArrayFill(Length(quizId), Null))
                    /\ outcome' = "ok"
    /\ loadingActive' = FALSE
    /\ UNCHANGED <<pendingSubmits, pendingRevalidations, resetTimers, pureCall>>

\* takeQuiz after the await, apiCall having thrown: apiCall hides the overlay and
\* notifies, the catch block hides the overlay.
TakeQuizFailed(quizId) ==
    /\ LoadLeaves(quizId)
    /\ loadingActive' = FALSE
    /\ outcome' = "notified"
    /\ UNCHANGED <<session, modalActive, dom, pendingSubmits, pendingRevalidations,
                   resetTimers, pureCall>>

\* ------------------------------------------------------- answer setters
\* The radio buttons renderCurrentQuestion wrote for the rendered question.
RenderedOptions ==
    IF ~HasRender THEN {}
    ELSE IF Rendered.type = "multiple-choice" THEN 0..(Len(Rendered.options) - 1)
    ELSE IF Rendered.type = "true-false" THEN {0, 1}
    ELSE {}

SelectAnswer(answerIndex) ==
    /\ FormUsable
    /\ answerIndex \in RenderedOptions
    /\ userAnswers' = ArraySet(userAnswers, currentQuestionIndex, Num(answerIndex))
    /\ touched' = touched \cup {currentQuestionIndex}
    /\ outcome' = "ok"
    /\ UNCHANGED <<currentQuiz, currentQuestionIndex, modalActive, dom, loadingActive,
                   inflight, superseded, resetTimers, pureCall>>

\* selectTextAnswer without the trim.
SelectTextAnswerUntrimmed(value) ==
    /\ FormUsable
    /\ HasRender
    /\ Rendered.type = "short-answer"
    /\ userAnswers' = ArraySet(userAnswers, currentQuestionIndex, Str(value))
    /\ touched' = touched \cup {currentQuestionIndex}
    /\ outcome' = "ok"
    /\ UNCHANGED <<currentQuiz, currentQuestionIndex, modalActive, dom, loadingActive,
                   inflight, superseded, resetTimers, pureCall>>

SelectTextAnswer(value) ==
    /\ FormUsable
    /\ HasRender
    /\ Rendered.type = "short-answer"
    /\ userAnswers' = ArraySet(userAnswers, currentQuestionIndex, Str(Trim(value)))
    /\ touched' = touched \cup {currentQuestionIndex}
    /\ outcome' = "ok"
    /\ UNCHANGED <<currentQuiz, currentQuestionIndex, modalActive, dom, loadingActive,
                   inflight, superseded, resetTimers, pureCall>>

\* selectFillInAnswer's writes: a slot that is no array becomes [] first.
FillInSlot(answers, index, blankIndex, value) ==
    LET slot == ArrayGet(answers, index)
        blanks == IF IsArray(slot) THEN slot.a ELSE <<>>
    IN  ArraySet(answers, index, Arr(ArraySet(blanks, blankIndex, Str(Trim(value)))))

SelectFillInAnswer(blankIndex, value) ==
    /\ FormUsable
    /\ HasRender
    /\ Rendered.type = "fill-in-blank"
    /\ blankIndex \in BlankInputs(Rendered)
    /\ userAnswers' = FillInSlot(userAnswers, currentQuestionIndex, blankIndex, value)
    /\ touched' = touched \cup {currentQuestionIndex}
    /\ outcome' = "ok"
    /\ UNCHANGED <<currentQuiz, currentQuestionIndex, modalActive, dom, loadingActive,
                   inflight, superseded, resetTimers, pureCall>>

\* ----------------------------------------------------------- navigation
\* currentQuiz.questions.length can be read.
QuestionsReadable == currentQuiz # NoQuiz /\ HasQuestions(currentQuiz)

\* The index is assigned, then renderCurrentQuestion, updateQuizProgress and
\* updateNavigationButtons run; a throw of the render leaves the page as it was.
MoveTo(index) ==
    /\ currentQuestionIndex' = index
    /\ IF RenderThrows(currentQuiz, index)
       THEN /\ outcome' = "TypeError"
            /\ UNCHANGED <<userAnswers, quizContainer, questionProgress, navButtons>>
       ELSE /\ ShowQuestion(currentQuiz, index, userAnswers)
            /\ outcome' = "ok"

\* nextQuestion with `<=` for `<`.
NextQuestionOffByOne ==
    IF ~QuestionsReadable
    THEN outcome' = "TypeError"
         /\ UNCHANGED <<currentQuestionIndex, userAnswers, quizContainer,
                        questionProgress, navButtons>>
    ELSE IF currentQuestionIndex <= Length(currentQuiz) - 1
    THEN MoveTo(currentQuestionIndex + 1)
    ELSE outcome' = "noop"
         /\ UNCHANGED <<currentQuestionIndex, userAnswers, quizContainer,
                        questionProgress, navButtons>>

\* nextQuestion: reading currentQuiz.questions of null, or the length of no
\* questions list, throws.
NextQuestion ==
    IF ~QuestionsReadable
    THEN outcome' = "TypeError"
         /\ UNCHANGED <<currentQuestionIndex, userAnswers, quizContainer,
                        questionProgress, navButtons>>
    ELSE IF currentQuestionIndex < Length(currentQuiz) - 1
    THEN MoveTo(currentQuestionIndex + 1)
    ELSE outcome' = "noop"
         /\ UNCHANGED <<currentQuestionIndex, userAnswers, quizContainer,
                        questionProgress, navButtons>>

\* previousQuestion: with no quiz, renderCurrentQuestion returns and
\* updateQuizProgress throws on currentQuiz.questions; with no questions list
\* the render throws.
PreviousQuestion ==
    IF currentQuestionIndex > 0
    THEN IF ~QuestionsReadable
         THEN /\ currentQuestionIndex' = currentQuestionIndex - 1
              /\ outcome' = "TypeError"
              /\ UNCHANGED <<userAnswers, quizContainer, questionProgress, navButtons>>
         ELSE MoveTo(currentQuestionIndex - 1)
    ELSE outcome' = "noop"
         /\ UNCHANGED <<currentQuestionIndex, userAnswers, quizContainer,
                        questionProgress, navButtons>>

NavFrame ==
    UNCHANGED <<currentQuiz, touched, modalActive, modalBody, resultsShown,
                loadingActive, inflight, superseded, resetTimers, pureCall>>

\* A click on #nextQuestion, which is displayed.
NextClick ==
    /\ FormUsable
    /\ navButtons.nextDisplayed
    /\ NextQuestion
    /\ NavFrame

\* A click on #prevQuestion, which is enabled.
PreviousClick ==
    /\ FormUsable
    /\ ~navButtons.prevDisabled
    /\ PreviousQuestion
    /\ NavFrame

\* The handlers invoked whatever the buttons show (a repeated input that is
\* delivered although the button has just been hidden or disabled).
NextCall ==
    /\ FormUsable
    /\ NextQuestion
    /\ NavFrame

PreviousCall ==
    /\ FormUsable
    /\ PreviousQuestion
    /\ NavFrame

\* ------------------------------------------------------------ submitQuiz
\* A click on #submitQuiz, which is displayed: submitQuiz up to its await.
\* The request carries the quiz id and the answers built now; atIndex and
\* atAnswers record the draft as it was at this event.
SubmitQuizWithin(inFlight) ==
    /\ FormUsable
    /\ navButtons.submitDisplayed
    /\ IF currentQuiz = NoQuiz
       THEN /\ outcome' = "noop"
            /\ UNCHANGED <<loadingActive, pendingSubmits>>
       ELSE IF ~HasQuestions(currentQuiz)
       THEN \* questions.forEach throws inside the try: the catch hides the overlay
            /\ loadingActive' = FALSE
            /\ outcome' = "caught"
            /\ UNCHANGED pendingSubmits
       ELSE /\ RequestsInFlight < inFlight
            /\ loadingActive' = TRUE
            /\ pendingSubmits' =
                 Append(pendingSubmits,
                        [quiz |-> currentQuiz,
                         answers |-> BuildAnswers(currentQuiz, userAnswers, 1),
                         atIndex |-> currentQuestionIndex,
                         atAnswers |-> userAnswers])
            /\ outcome' = "ok"
    /\ UNCHANGED <<session, modalActive, dom, pendingLoads, pendingRevalidations,
                   superseded, resetTimers, pureCall>>

\* A click on Submit.
SubmitQuiz == SubmitQuizWithin(MaxInFlight)

\* The shapes a grading response can have: the flat {score, correct_answers},
\* the nested {overall_score, validation_results}, or neither.
ResultShapes == {"flat", "nested", "neither"}

\* result.score and result.correct_answers as submitQuiz reads them: only the
\* flat shape has these fields.
ResultScore(shape, correct, total) ==
    IF shape = "flat" THEN Num(ServerScore(correct, total)) ELSE Undefined
ResultCorrect(shape, correct) ==
    IF shape = "flat" THEN Num(correct) ELSE Undefined

\* showQuizResults: the template reads currentQuiz.questions.length before the
\* body is assigned, so with no quiz it throws and the body stays.
\* submitQuiz after the await, the request having succeeded with `correct`
\* right answers in a response of the given shape: hideLoading,
\* showQuizResults; a throw lands in the catch block.
\* (refreshStats, which follows, touches the stat cards only.)
SubmitSucceeded(i, correct, shape) ==
    /\ i \in 1..Len(pendingSubmits)
    /\ correct \in 0..Len(pendingSubmits[i].answers)
    /\ shape \in ResultShapes
    /\ pendingSubmits' = RemoveAt(pendingSubmits, i)
    /\ loadingActive' = FALSE
    /\ IF ~QuestionsReadable
       THEN /\ outcome' = "caught"
            /\ UNCHANGED dom
       ELSE /\ modalBody' = "results"
            /\ quizContainer' = NoRender
            /\ navButtons' = NoButtons
            /\ questionProgress' = <<0, 0>>
            /\ resultsShown' =
                 [NoResults EXCEPT
                    !.score = ResultScore(shape, correct, Length(pendingSubmits[i].quiz)),
                    !.correct = ResultCorrect(shape, correct),
                    !.total = Num(Length(currentQuiz))]
            /\ outcome' = "ok"
    /\ UNCHANGED <<session, modalActive, pendingLoads, pendingRevalidations,
                   superseded, resetTimers, pureCall>>

\* submitQuiz whose catch block posts the same answers again.
SubmitFailedRetries(i) ==
    /\ i \in 1..Len(pendingSubmits)
    /\ pendingSubmits' = Append(RemoveAt(pendingSubmits, i), pendingSubmits[i])
    /\ loadingActive' = TRUE
    /\ outcome' = "notified"
    /\ UNCHANGED <<session, modalActive, dom, pendingLoads, pendingRevalidations,
                   superseded, resetTimers, pureCall>>

\* submitQuiz after the await, apiCall having thrown because fetch failed.
SubmitFailed(i) ==
    /\ i \in 1..Len(pendingSubmits)
    /\ pendingSubmits' = RemoveAt(pendingSubmits, i)
    /\ loadingActive' = FALSE
    /\ outcome' = "notified"
    /\ UNCHANGED <<session, modalActive, dom, pendingLoads, pendingRevalidations,
                   superseded, resetTimers, pureCall>>

\* submitQuiz after the await, the server having answered that the quiz or a
\* question id is unknown: apiCall throws on !response.ok with the server's
\* message, notifies it, and the catch block hides the overlay.
SubmitRejected(i) ==
    /\ i \in 1..Len(pendingSubmits)
    /\ pendingSubmits' = RemoveAt(pendingSubmits, i)
    /\ loadingActive' = FALSE
    /\ outcome' = "rejected"
    /\ UNCHANGED <<session, modalActive, dom, pendingLoads, pendingRevalidations,
                   superseded, resetTimers, pureCall>>

\* retakeQuiz without the reset of userAnswers.
RetakeQuizKeepsAnswers ==
    /\ modalActive
    /\ modalBody \in {"results", "enhanced"}
    /\ IF currentQuiz = NoQuiz
       THEN /\ outcome' = "noop"
            /\ UNCHANGED <<currentQuestionIndex, userAnswers, touched, dom>>
       ELSE IF ~HasQuestions(currentQuiz)
       THEN \* the index is assigned, then questions.length throws
            /\ currentQuestionIndex' = 0
            /\ outcome' = "TypeError"
            /\ UNCHANGED <<userAnswers, touched, dom>>
       ELSE /\ currentQuestionIndex' = 0
            /\ touched' = {}
            /\ modalBody' = "quiz"
            /\ resultsShown' = NoResults
            /\ IF RenderThrows(currentQuiz, 0)
               THEN /\ userAnswers' = ArrayFill(Length(currentQuiz), Null)
                    /\ quizContainer' = NoRender
                    /\ navButtons' = FreshButtons
                    /\ questionProgress' = <<0, 0>>
                    /\ outcome' = "TypeError"
               ELSE /\ ShowQuestion(currentQuiz, 0, userAnswers)
                    /\ outcome' = "ok"
    /\ UNCHANGED <<currentQuiz, modalActive, loadingActive, inflight, superseded,
                   resetTimers, pureCall>>

\* ------------------------------------------------------------ retakeQuiz
\* A click on Retake Quiz in the results view.
RetakeQuiz ==
    /\ modalActive
    /\ modalBody \in {"results", "enhanced"}
    /\ IF currentQuiz = NoQuiz
       THEN /\ outcome' = "noop"
            /\ UNCHANGED <<currentQuestionIndex, userAnswers, touched, dom>>
       ELSE IF ~HasQuestions(currentQuiz)
       THEN \* the index is assigned, then questions.length throws
            /\ currentQuestionIndex' = 0
            /\ outcome' = "TypeError"
            /\ UNCHANGED <<userAnswers, touched, dom>>
       ELSE /\ currentQuestionIndex' = 0
            /\ touched' = {}
            /\ modalBody' = "quiz"
            /\ resultsShown' = NoResults
            /\ IF RenderThrows(currentQuiz, 0)
               THEN /\ userAnswers' = ArrayFill(Length(currentQuiz), Null)
                    /\ quizContainer' = NoRender
                    /\ navButtons' = FreshButtons
                    /\ questionProgress' = <<0, 0>>
                    /\ outcome' = "TypeError"
               ELSE /\ ShowQuestion(currentQuiz, 0, ArrayFill(Length(currentQuiz), Null))
                    /\ outcome' = "ok"
    /\ UNCHANGED <<currentQuiz, modalActive, loadingActive, inflight, superseded,
                   resetTimers, pureCall>>

\* --------------------------------------------------------- re-validation
\* The score an attempt held before re-validation and the scores the service
\* may report after it.
HeldScore == 50
RevalidatedScores == {50, 100}

\* The shapes a re-validation response can have: {old_score, new_score,
\* validation_results}, the nested {overall_score, validation_results}, or
\* neither (no validation_results at all).
RevalidationShapes == {"revalidation", "nested", "neither"}

\* A request to POST /quiz-attempts/<id>/revalidate leaves from `caller`.
SendRevalidation(caller) ==
    /\ RequestsInFlight < MaxInFlight
    /\ loadingActive' = TRUE
    /\ pendingRevalidations' = [pendingRevalidations EXCEPT ![caller] = @ + 1]
    /\ outcome' = "ok"

\* The response of a re-validation requested by `caller` arrives.
RevalidationLeaves(caller) ==
    /\ pendingRevalidations[caller] > 0
    /\ pendingRevalidations' = [pendingRevalidations EXCEPT ![caller] = @ - 1]
    /\ loadingActive' = FALSE

\* A click on Re-validate in the attempt history: revalidateQuizAttempt up to
\* its await.
RevalidateQuizAttempt ==
    /\ SendRevalidation("revalidateQuizAttempt")
    /\ UNCHANGED <<session, modalActive, dom, pendingLoads, pendingSubmits,
                   superseded, resetTimers, pureCall>>

\* renderProjectQuizzes empties #quizList and builds the quiz items anew, their
\* histories hidden and empty: an attempt history on display is gone.
QuizListRendered(call) ==
    IF call.method = "attempts" THEN [call EXCEPT !.results = <<>>] ELSE call

\* revalidateQuizAttempt after the await, the request having succeeded: the
\* success is notified and the project's quiz list refreshed; a refresh that
\* throws lands in the catch block, which notifies a failure.
RevalidateQuizAttemptSucceeded(refreshed) ==
    /\ RevalidationLeaves("revalidateQuizAttempt")
    /\ outcome' = IF refreshed THEN "ok" ELSE "notified"
    /\ pureCall' = IF refreshed THEN QuizListRendered(pureCall) ELSE pureCall
    /\ UNCHANGED <<session, modalActive, dom, pendingLoads, pendingSubmits,
                   superseded, resetTimers>>

\* revalidateQuizAttempt after the await, apiCall having thrown.
RevalidateQuizAttemptFailed ==
    /\ RevalidationLeaves("revalidateQuizAttempt")
    /\ outcome' = "notified"
    /\ UNCHANGED <<session, modalActive, dom, pendingLoads, pendingSubmits,
                   superseded, resetTimers, pureCall>>

\* revalidateQuiz(attemptId) up to its await; without an attempt id it warns
\* and returns.
RevalidateQuiz(hasAttemptId) ==
    /\ IF hasAttemptId
       THEN SendRevalidation("revalidateQuiz")
       ELSE /\ outcome' = "noop"
            /\ UNCHANGED <<loadingActive, pendingRevalidations>>
    /\ UNCHANGED <<session, modalActive, dom, pendingLoads, pendingSubmits,
                   superseded, resetTimers, pureCall>>

\* revalidateQuiz after its await, but showing as the old score the new score
\* of the comparison already on display: a view that depends on what was
\* shown before.
RevalidateQuizSucceededChained(shape, newScore) ==
    /\ shape \in RevalidationShapes
    /\ newScore \in RevalidatedScores
    /\ RevalidationLeaves("revalidateQuiz")
    /\ IF shape = "neither"
       THEN /\ outcome' = "notified"
            /\ UNCHANGED dom
       ELSE /\ modalBody' = "revalidation"
            /\ quizContainer' = NoRender
            /\ navButtons' = NoButtons
            /\ questionProgress' = <<0, 0>>
            /\ resultsShown' =
                 [NoResults EXCEPT
                    !.oldScore = IF shape # "revalidation" THEN Undefined
                                 ELSE IF modalBody = "revalidation"
                                      THEN resultsShown.newScore
                                      ELSE Num(HeldScore),
                    !.newScore = IF shape = "revalidation" THEN Num(newScore)
                                                          ELSE Undefined]
            /\ outcome' = "ok"
    /\ UNCHANGED <<session, modalActive, pendingLoads, pendingSubmits,
                   superseded, resetTimers, pureCall>>

\* revalidateQuiz after the await, the request having succeeded:
\* showRevalidationResults writes the body of the quiz modal.  Its template
\* calls JSON.stringify(result.validation_results).replace, which throws when
\* validation_results is missing; the catch block then notifies a failure and
\* the body stays.
RevalidateQuizSucceeded(shape, newScore) ==
    /\ shape \in RevalidationShapes
    /\ newScore \in RevalidatedScores
    /\ RevalidationLeaves("revalidateQuiz")
    /\ IF shape = "neither"
       THEN /\ outcome' = "notified"
            /\ UNCHANGED dom
       ELSE /\ modalBody' = "revalidation"
            /\ quizContainer' = NoRender
            /\ navButtons' = NoButtons
            /\ questionProgress' = <<0, 0>>
            /\ resultsShown' =
                 [NoResults EXCEPT
                    !.oldScore = IF shape = "revalidation" THEN Num(HeldScore)
                                                          ELSE Undefined,
                    !.newScore = IF shape = "revalidation" THEN Num(newScore)
                                                          ELSE Undefined]
            /\ outcome' = "ok"
    /\ UNCHANGED <<session, modalActive, pendingLoads, pendingSubmits,
                   superseded, resetTimers, pureCall>>

\* revalidateQuiz after the await, apiCall having thrown.
RevalidateQuizFailed ==
    /\ RevalidationLeaves("revalidateQuiz")
    /\ outcome' = "notified"
    /\ UNCHANGED <<session, modalActive, dom, pendingLoads, pendingSubmits,
                   superseded, resetTimers, pureCall>>

\* A click on View Detailed Results in the re-validation view:
\* showEnhancedQuizResults(result.validation_results) writes the body with the
\* score, correct_answers and total_questions of the validation results,
\* fields that object (overall_score, validation_results) does not have.
ShowEnhancedQuizResults ==
    /\ modalActive
    /\ modalBody = "revalidation"
    /\ modalBody' = "enhanced"
    /\ resultsShown' = [NoResults EXCEPT !.score = Undefined,
                                         !.correct = Undefined,
                                         !.total = Undefined]
    /\ outcome' = "ok"
    /\ UNCHANGED <<session, modalActive, quizContainer, navButtons, questionProgress,
                   loadingActive, inflight, superseded, resetTimers, pureCall>>

\* --------------------------------------------------------------- closing
\* closeQuizModal, from the header button or the Close button of the results
\* view: the class goes now, resetQuiz runs 300 ms later.
CloseQuizModal(button) ==
    /\ modalActive
    /\ button = "results" => modalBody \in {"results", "revalidation", "enhanced"}
    /\ resetTimers < MaxTimers
    /\ modalActive' = FALSE
    /\ resetTimers' = resetTimers + 1
    /\ UNCHANGED pureCall
    /\ superseded' = pendingLoads
    /\ outcome' = "ok"
    /\ UNCHANGED <<session, dom, loadingActive, inflight>>

\* A click on the overlay around the modal: both overlay listeners remove the
\* class, bindModalOverlayEvents' one also schedules resetQuiz.
OverlayClick ==
    /\ modalActive
    /\ resetTimers < MaxTimers
    /\ modalActive' = FALSE
    /\ resetTimers' = resetTimers + 1
    /\ UNCHANGED pureCall
    /\ superseded' = pendingLoads
    /\ outcome' = "ok"
    /\ UNCHANGED <<session, dom, loadingActive, inflight>>

\* The keydown listener: Escape removes 'active' from every open modal, and
\* nothing else.
EscapeKey ==
    /\ modalActive
    /\ modalActive' = FALSE
    /\ superseded' = pendingLoads
    /\ outcome' = "ok"
    /\ UNCHANGED <<session, dom, loadingActive, inflight, resetTimers, pureCall>>

\* A pending timeout fires: resetQuiz.
ResetQuiz ==
    /\ resetTimers > 0
    /\ resetTimers' = resetTimers - 1
    /\ UNCHANGED pureCall
    /\ ResetQuizState
    /\ ResetQuizModalBody
    /\ outcome' = "ok"
    /\ UNCHANGED <<modalActive, loadingActive, inflight, superseded>>

\* ---------------------------------------------------------- specifications
Next ==
    \/ \E quizId \in QuizIds : TakeQuiz(quizId)
    \/ \E quizId \in QuizIds : TakeQuizLoaded(quizId)
    \/ \E quizId \in QuizIds : TakeQuizFailed(quizId)
    \/ \E answerIndex \in 0..1 : SelectAnswer(answerIndex)
    \/ \E value \in RawTexts : SelectTextAnswer(value)
    \/ \E blankIndex \in 0..1, value \in RawTexts : SelectFillInAnswer(blankIndex, value)
    \/ NextClick
    \/ PreviousClick
    \/ SubmitQuiz
    \/ \E i \in 1..Len(pendingSubmits), correct \in 0..2, shape \in ResultShapes :
          SubmitSucceeded(i, correct, shape)
    \/ \E i \in 1..Len(pendingSubmits) : SubmitFailed(i)
    \/ \E i \in 1..Len(pendingSubmits) : SubmitRejected(i)
    \/ RetakeQuiz
    \/ \E button \in {"header", "results"} : CloseQuizModal(button)
    \/ OverlayClick
    \/ EscapeKey
    \/ ResetQuiz

Spec == Init /\ [][Next]_vars

\* The same program with the navigation handlers also invoked at the boundaries.
NextWithCalls ==
    \/ Next
    \/ NextCall
    \/ PreviousCall

SpecCalls == Init /\ [][NextWithCalls]_vars

\* selectFillInAnswer called with any blankIndex while a fill-in-blank question
\* is displayed: the method itself compares blankIndex with nothing, and
\* an assignment past the end of a JavaScript array lengthens it.
SelectFillInCall(blankIndex, value) ==
    /\ FormUsable
    /\ HasRender
    /\ Rendered.type = "fill-in-blank"
    /\ userAnswers' = FillInSlot(userAnswers, currentQuestionIndex, blankIndex, value)
    /\ touched' = touched \cup {currentQuestionIndex}
    /\ outcome' = "ok"
    /\ UNCHANGED <<currentQuiz, currentQuestionIndex, modalActive, dom, loadingActive,
                   inflight, superseded, resetTimers, pureCall>>

\* The blankIndex values a caller may pass: up to one past the blanks of the
\* question with the most blanks.
CallBlankIndexes == 0..2

NextWithSetterCalls ==
    \/ Next
    \/ \E blankIndex \in CallBlankIndexes, value \in RawTexts :
          SelectFillInCall(blankIndex, value)

SpecSetterCalls == Init /\ [][NextWithSetterCalls]_vars

\* ------------------------------------------------- a session carried through
\* A user who takes a quiz from the list while no quiz modal covers it, works
\* on the form, goes on to the last question and submits, on a connection
\* that delivers every response; the modal is not dismissed.
TakeQuizFromList(quizId) ==
    /\ ~modalActive
    /\ TakeQuiz(quizId)

NextCarried ==
    \/ \E quizId \in AllQuizIds : TakeQuizFromList(quizId)
    \/ \E quizId \in AllQuizIds : TakeQuizLoaded(quizId)
    \/ \E answerIndex \in 0..1 : SelectAnswer(answerIndex)
    \/ \E value \in RawTexts : SelectTextAnswer(value)
    \/ \E blankIndex \in 0..1, value \in RawTexts : SelectFillInAnswer(blankIndex, value)
    \/ NextClick
    \/ PreviousClick
    \/ SubmitQuiz
    \/ \E i \in 1..Len(pendingSubmits), correct \in 0..2, shape \in ResultShapes :
          SubmitSucceeded(i, correct, shape)
    \/ RetakeQuiz

\* Every response arrives; the user does press Next and Submit when they are
\* offered again and again.
CarriedThrough ==
    /\ WF_vars(\E quizId \in AllQuizIds : TakeQuizLoaded(quizId))
    /\ WF_vars(\E i \in 1..Len(pendingSubmits), correct \in 0..2,
                  shape \in ResultShapes : SubmitSucceeded(i, correct, shape))
    /\ SF_vars(NextClick)
    /\ SF_vars(SubmitQuiz)

SpecCarried == Init /\ [][NextCarried]_vars /\ CarriedThrough

\* --------------------------------------------------- clicks while submitting
\* Submit requests of one session awaiting their responses.
MaxSubmits == 2

\* A one-question quiz on which Submit can be clicked again while the response
\* of an earlier click is awaited: submitQuiz up to MaxSubmits requests.
SubmitsQuizIds == {"q3"}

NextSubmits ==
    \/ \E quizId \in SubmitsQuizIds : TakeQuiz(quizId)
    \/ \E quizId \in SubmitsQuizIds : TakeQuizLoaded(quizId)
    \/ \E quizId \in SubmitsQuizIds : TakeQuizFailed(quizId)
    \/ \E blankIndex \in 0..1, value \in RawTexts : SelectFillInAnswer(blankIndex, value)
    \/ SubmitQuizWithin(MaxSubmits)
    \/ \E i \in 1..Len(pendingSubmits), correct \in 0..2, shape \in ResultShapes :
          SubmitSucceeded(i, correct, shape)
    \/ \E i \in 1..Len(pendingSubmits) : SubmitFailed(i)
    \/ RetakeQuiz
    \/ \E button \in {"header", "results"} : CloseQuizModal(button)
    \/ ResetQuiz

SpecSubmits == Init /\ [][NextSubmits]_vars

\* ------------------------------------------- the fill-in-blank case alone
\* The fill-in-blank case of renderCurrentQuestion computes from question.text
\* alone.  The texts it is evaluated on: nothing or something that looks like
\* an instruction in front, then up to MaxTextLen characters.
TextChars == {"_", "x", " "}
Bodies == UNION {[1..n -> TextChars] : n \in 0..MaxTextLen}
Leads ==
    { <<>>,
      fillInPrefixes[1],
      fillInPrefixes[4],
      <<"F","I","L","L"," ","I","N"," ","T","H","E"," ","B","L","A","N","K",":">>,
      <<"F","i","l","l"," ","i","n">>,
      fillInPrefixes[2] \o <<" ">> \o fillInPrefixes[3] }
FillInTexts == {lead \o body : lead \in Leads, body \in Bodies}

InitFillIn ==
    /\ InitSession
    /\ \E text \in FillInTexts :
          pureCall = [method |-> "renderFillInBlank", argument |-> text, results |-> <<>>]

\* What the case computes: the text without its prefix, the number of
\* blanks, the parts, the inputs it emits and the array it allocates.
RenderFillInBlank ==
    /\ pureCall.method = "renderFillInBlank"
    /\ pureCall.results = <<>>
    /\ LET question == FillInBlank(0, pureCall.argument)
       IN  pureCall' =
             [pureCall EXCEPT !.results =
                << [cleanQuestionText |-> CleanQuestionText(question.text),
                    blankCount |-> BlankCount(question),
                    questionParts |-> QuestionParts(question),
                    inputs |-> Cardinality(BlankInputs(question)),
                    allocated |-> Len(ArrayFill(BlankCount(question), Str(<<>>)))] >>]
    /\ UNCHANGED sessionVars

NextFillIn == RenderFillInBlank

SpecFillIn == InitFillIn /\ [][NextFillIn]_vars

\* ------------------------------------------------------ generateInsights
\* The aggregates GET /quizzes/<id>/analytics returns, around the thresholds
\* generateInsights compares them with; a field may be missing (undefined).
TotalAttempts == {Num(0), Num(1), Num(10), Num(11), Undefined}
BestScores == {Num(69), Num(70), Num(84), Num(85), Num(94), Num(95), Undefined}
ImprovementTrends == {Num(-6), Num(-5), Num(5), Num(6), Undefined}
ConsistencyScores == {Num(49), Num(50), Num(79), Num(80), Undefined}
DetailedAttempts == {Num(0), Num(2), Undefined}

AnalyticsValues ==
    {Null} \cup
    [total_attempts : TotalAttempts, best_score : BestScores,
     improvement_trend : ImprovementTrends, consistency_score : ConsistencyScores,
     detailed_attempts : DetailedAttempts]

\* a >= n, a > n, a < n on a JavaScript value: false when a is undefined.
AtLeast(a, n) == a.t = "number" /\ a.n >= n
MoreThan(a, n) == a.t = "number" /\ a.n > n
LessThan(a, n) == a.t = "number" /\ a.n < n

\* { type, icon, text }; `count` is the number the text starts with, 0 if none.
Insight(type, icon, text) == [type |-> type, icon |-> icon, text |-> text, count |-> 0]

\* The best-score rules as independent ifs rather than an else-if chain.
PerformanceInsightsIndependent(analytics) ==
    (IF AtLeast(analytics.best_score, 95)
     THEN << Insight("success", "fa-star", "Outstanding mastery of this topic!") >>
     ELSE <<>>)
    \o (IF AtLeast(analytics.best_score, 85)
        THEN << Insight("success", "fa-thumbs-up", "Excellent understanding demonstrated!") >>
        ELSE <<>>)
    \o (IF LessThan(analytics.best_score, 70)
        THEN << Insight("warning", "fa-book-open",
                        "Consider reviewing the material more thoroughly.") >>
        ELSE <<>>)

PerformanceInsights(analytics) ==
    IF AtLeast(analytics.best_score, 95)
    THEN << Insight("success", "fa-star", "Outstanding mastery of this topic!") >>
    ELSE IF AtLeast(analytics.best_score, 85)
    THEN << Insight("success", "fa-thumbs-up", "Excellent understanding demonstrated!") >>
    ELSE IF LessThan(analytics.best_score, 70)
    THEN << Insight("warning", "fa-book-open",
                    "Consider reviewing the material more thoroughly.") >>
    ELSE <<>>

\* The trend rules with the thresholds included.
TrendInsightsInclusive(analytics) ==
    IF AtLeast(analytics.improvement_trend, 5)
    THEN << Insight("success", "fa-arrow-up", "Great improvement trend! Keep it up!") >>
    ELSE IF LessThan(analytics.improvement_trend, -4)
    THEN << Insight("warning", "fa-arrow-down",
                    "Scores are declining. Take a break and review.") >>
    ELSE <<>>

TrendInsights(analytics) ==
    IF MoreThan(analytics.improvement_trend, 5)
    THEN << Insight("success", "fa-arrow-up", "Great improvement trend! Keep it up!") >>
    ELSE IF LessThan(analytics.improvement_trend, -5)
    THEN << Insight("warning", "fa-arrow-down",
                    "Scores are declining. Take a break and review.") >>
    ELSE <<>>

ConsistencyInsights(analytics) ==
    IF AtLeast(analytics.consistency_score, 80)
    THEN << Insight("success", "fa-check-circle",
                    "Very consistent performance across attempts.") >>
    ELSE IF LessThan(analytics.consistency_score, 50)
    THEN << Insight("info", "fa-exclamation-triangle",
                    "Performance varies significantly between attempts.") >>
    ELSE <<>>

FrequencyInsights(analytics) ==
    IF analytics.total_attempts = Num(1)
    THEN << Insight("info", "fa-play",
                    "Try taking the quiz again to track your progress!") >>
    ELSE IF MoreThan(analytics.total_attempts, 10)
    THEN << Insight("info", "fa-medal",
                    "Dedicated learner! Many attempts show commitment.") >>
    ELSE <<>>

ValidationInsights(analytics) ==
    IF MoreThan(analytics.detailed_attempts, 0)
    THEN << [Insight("info", "fa-robot", " attempts have detailed AI feedback available.")
               EXCEPT !.count = analytics.detailed_attempts.n] >>
    ELSE <<>>

\* generateInsights returning its list as it is, empty or not.
generateInsightsNoFallback(analytics) ==
    IF analytics = Null \/ analytics.total_attempts = Num(0)
    THEN << Insight("info", "fa-info-circle",
                    "Take your first attempt to get personalized insights!") >>
    ELSE PerformanceInsights(analytics) \o TrendInsights(analytics)
           \o ConsistencyInsights(analytics)
           \o FrequencyInsights(analytics)
           \o ValidationInsights(analytics)

generateInsights(analytics) ==
    IF analytics = Null \/ analytics.total_attempts = Num(0)
    THEN << Insight("info", "fa-info-circle",
                    "Take your first attempt to get personalized insights!") >>
    ELSE LET insights == PerformanceInsights(analytics) \o TrendInsights(analytics)
                           \o ConsistencyInsights(analytics)
                           \o FrequencyInsights(analytics)
                           \o ValidationInsights(analytics)
         IN  IF Len(insights) > 0 THEN insights
             ELSE << Insight("info", "fa-chart-bar",
                             "Keep taking attempts to unlock more insights!") >>

\* The calls of generateInsights made on one analytics value, and the
\* re-validations of one attempt started from one history.
MaxCalls == 2

InitInsights ==
    /\ InitSession
    /\ \E analytics \in AnalyticsValues :
          pureCall = [method |-> "generateInsights", argument |-> analytics,
                      results |-> <<>>]

\* A call that keeps its list from one call to the next.
CallGenerateInsightsAccumulating ==
    /\ pureCall.method = "generateInsights"
    /\ Len(pureCall.results) < MaxCalls
    /\ pureCall' =
         [pureCall EXCEPT !.results =
            Append(@, (IF @ = <<>> THEN <<>> ELSE @[Len(@)])
                         \o generateInsights(pureCall.argument))]
    /\ UNCHANGED sessionVars

\* A call of generateInsights(analytics): it reads its argument, builds a
\* list of its own and returns it.
CallGenerateInsights ==
    /\ pureCall.method = "generateInsights"
    /\ Len(pureCall.results) < MaxCalls
    /\ pureCall' = [pureCall EXCEPT !.results = Append(@, generateInsights(pureCall.argument))]
    /\ UNCHANGED sessionVars

\* Between the calls a quiz may be loaded and shown and the modal dismissed.
InsightsQuizIds == {"q3"}

NextInsights ==
    \/ CallGenerateInsights
    \/ \E quizId \in InsightsQuizIds : TakeQuiz(quizId)
    \/ \E quizId \in InsightsQuizIds : TakeQuizLoaded(quizId)
    \/ \E quizId \in InsightsQuizIds : TakeQuizFailed(quizId)
    \/ EscapeKey

SpecInsights == InitInsights /\ [][NextInsights]_vars

\* ------------------------------------------------------ attempt history
\* The attempts GET /quizzes/<id>/attempts returns: up to MaxAttempts of
\* them, in any order; attempt k was submitted at time k.
MaxAttempts == 3
AttemptScores == {60, 70, 90}
Attempt(k, score) == [id |-> k, submitted_at |-> k, score |-> score]
AttemptLists ==
    UNION { { [i \in 1..n |-> Attempt(ids[i], scores[i])] :
                ids \in {f \in [1..n -> 1..MaxAttempts] :
                            \A i, j \in 1..n : i # j => f[i] # f[j]},
                scores \in [1..n -> AttemptScores] } :
            n \in 0..MaxAttempts }

\* renderQuizHistory: createAttemptItem(attempt, attempts.length - index) for
\* every attempt, in the order of the list.
RenderedNumbers(attempts) ==
    [i \in 1..Len(attempts) |->
        [id |-> attempts[i].id, attemptNumber |-> Len(attempts) - (i - 1)]]

\* exportQuizHistory: `ATTEMPT ${index + 1}` for every attempt.
ExportedNumbers(attempts) ==
    [i \in 1..Len(attempts) |-> [id |-> attempts[i].id, attemptNumber |-> (i - 1) + 1]]

\* scores.reduce((a, b) => a + b, 0)
RECURSIVE SumOf(_)
SumOf(scores) == IF scores = <<>> THEN 0 ELSE Head(scores) + SumOf(Tail(scores))
\* Math.max(...scores) and Math.min(...scores) of a non-empty list
MaxOf(scores) == CHOOSE x \in {scores[i] : i \in 1..Len(scores)} :
                    \A i \in 1..Len(scores) : scores[i] <= x
MinOf(scores) == CHOOSE x \in {scores[i] : i \in 1..Len(scores)} :
                    \A i \in 1..Len(scores) : x <= scores[i]

\* (sum / count).toFixed(1): the digits before the point and the one after
\* it, the nearest tenth, the larger one when two are as near.
ToFixed1(sum, count) ==
    LET tenths == (20 * sum + count) \div (2 * count)
    IN  [whole |-> tenths \div 10, decimals |-> << tenths % 10 >>]
\* `${n}`: an integer printed as it is.
Printed(n) == [whole |-> n, decimals |-> <<>>]

NoSummary == [avgScore |-> Null, bestScore |-> Null, worstScore |-> Null]

\* The performance summary of exportQuizHistory.
PerformanceSummary(attempts) ==
    LET scores == [i \in 1..Len(attempts) |-> attempts[i].score]
    IN  [avgScore |-> ToFixed1(SumOf(scores), Len(scores)),
         bestScore |-> Printed(MaxOf(scores)),
         worstScore |-> Printed(MinOf(scores))]

InitHistory ==
    /\ InitSession
    /\ \E attempts \in AttemptLists :
          pureCall = [method |-> "history", argument |-> attempts, results |-> <<>>]

Shown(kind) == \E c \in 1..Len(pureCall.results) : pureCall.results[c].kind = kind

\* renderQuizHistory(container, attempts)
RenderQuizHistory ==
    /\ pureCall.method = "history"
    /\ ~Shown("renderQuizHistory")
    /\ pureCall' =
         [pureCall EXCEPT !.results =
            Append(@, [kind |-> "renderQuizHistory",
                       numbers |-> RenderedNumbers(pureCall.argument),
                       summary |-> NoSummary])]
    /\ UNCHANGED sessionVars

\* exportQuizHistory after its await, for a project that holds the quiz:
\* nothing is written for an empty list.
ExportQuizHistory ==
    /\ pureCall.method = "history"
    /\ ~Shown("exportQuizHistory")
    /\ pureCall' =
         [pureCall EXCEPT !.results =
            Append(@, [kind |-> "exportQuizHistory",
                       numbers |-> ExportedNumbers(pureCall.argument),
                       summary |-> IF pureCall.argument = <<>> THEN NoSummary
                                   ELSE PerformanceSummary(pureCall.argument)])]
    /\ UNCHANGED sessionVars

NextHistory ==
    \/ RenderQuizHistory
    \/ ExportQuizHistory

SpecHistory == InitHistory /\ [][NextHistory]_vars

\* ------------------------------------------- re-validation from the history
\* The attempts as far as createAttemptItem's actions read them:
\* validation_results is null, an object without a breakdown or an object with
\* one; revalidated_at is null or a time.
NoBreakdown == [validation_results |-> Undefined]
Breakdown == [validation_results |-> Arr(<<>>)]
ValidatedAttempt(k, validation, revalidated) ==
    [id |-> k, validation_results |-> validation, revalidated_at |-> revalidated]

ValidatedAttemptLists ==
    UNION { { [i \in 1..n |-> ValidatedAttempt(ids[i], validations[i], times[i])] :
                ids \in {f \in [1..n -> 1..MaxAttempts] :
                            \A i, j \in 1..n : i < j => f[i] < f[j]},
                validations \in [1..n -> {Null, NoBreakdown, Breakdown}],
                times \in [1..n -> {Null, Num(1)}] } :
            n \in 0..MaxAttempts }

hasDetailedFeedback(attempt) ==
    /\ attempt.validation_results # Null
    /\ IsArray(attempt.validation_results.validation_results)

\* The buttons of the item that call revalidateQuizAttempt(attempt.id).
RevalidateButtons(attempt) ==
    IF hasDetailedFeedback(attempt)
    THEN IF Truthy(attempt.revalidated_at) THEN 0 ELSE 1
    ELSE 1

createAttemptItem(attempt) ==
    [kind |-> "createAttemptItem", id |-> attempt.id,
     revalidateButtons |-> RevalidateButtons(attempt)]

InitAttempts ==
    /\ InitSession
    /\ \E attempts \in ValidatedAttemptLists :
          pureCall = [method |-> "attempts", argument |-> attempts, results |-> <<>>]

\* renderQuizHistory on a history that shows nothing: an item for every attempt.
RenderAttemptItems ==
    /\ pureCall.method = "attempts"
    /\ pureCall.results = <<>>
    /\ pureCall.argument # <<>>
    /\ pureCall' = [pureCall EXCEPT !.results =
                      [i \in 1..Len(pureCall.argument) |->
                          createAttemptItem(pureCall.argument[i])]]
    /\ UNCHANGED sessionVars

\* The re-validations started from the history on display.
Started(attemptId) ==
    {c \in 1..Len(pureCall.results) :
        /\ pureCall.results[c].kind = "revalidateQuizAttempt"
        /\ pureCall.results[c].id = attemptId}

\* A click on the Re-validate or Get AI Feedback button of an item:
\* revalidateQuizAttempt(attempt.id) up to its await.
RevalidateClick(attemptId) ==
    /\ pureCall.method = "attempts"
    /\ \E c \in 1..Len(pureCall.results) :
          /\ pureCall.results[c].kind = "createAttemptItem"
          /\ pureCall.results[c].id = attemptId
          /\ pureCall.results[c].revalidateButtons > 0
    /\ Cardinality(Started(attemptId)) < MaxCalls
    /\ SendRevalidation("revalidateQuizAttempt")
    /\ pureCall' = [pureCall EXCEPT !.results =
                      Append(@, [kind |-> "revalidateQuizAttempt", id |-> attemptId,
                                 revalidateButtons |-> 0])]
    /\ UNCHANGED <<session, modalActive, dom, pendingLoads, pendingSubmits,
                   superseded, resetTimers>>

NextAttempts ==
    \/ RenderAttemptItems
    \/ \E attemptId \in 1..MaxAttempts : RevalidateClick(attemptId)
    \/ \E refreshed \in BOOLEAN : RevalidateQuizAttemptSucceeded(refreshed)
    \/ RevalidateQuizAttemptFailed

SpecAttempts == InitAttempts /\ [][NextAttempts]_vars

\* The same program with the server also returning the malformed payloads.
NextPayloads ==
    \/ Next
    \/ \E quizId \in MalformedIds : TakeQuiz(quizId)
    \/ \E quizId \in MalformedIds : TakeQuizLoaded(quizId)
    \/ \E quizId \in MalformedIds : TakeQuizFailed(quizId)

SpecPayloads == Init /\ [][NextPayloads]_vars

\* The program with re-validation, on a server that holds the one-question
\* quiz q3: the attempt history's button, and revalidateQuiz invoked directly
\* (the only button that calls it is in the view showEnhancedQuizResults
\* writes).  With one question there is nothing to navigate to and no radio
\* button or textarea to use.
RevalidateQuizIds == {"q3"}

NextRevalidate ==
    \/ \E quizId \in RevalidateQuizIds : TakeQuiz(quizId)
    \/ \E quizId \in RevalidateQuizIds : TakeQuizLoaded(quizId)
    \/ \E quizId \in RevalidateQuizIds : TakeQuizFailed(quizId)
    \/ \E blankIndex \in 0..1, value \in RawTexts : SelectFillInAnswer(blankIndex, value)
    \/ SubmitQuiz
    \/ \E i \in 1..Len(pendingSubmits), correct \in 0..2, shape \in ResultShapes :
          SubmitSucceeded(i, correct, shape)
    \/ \E i \in 1..Len(pendingSubmits) : SubmitFailed(i)
    \/ \E i \in 1..Len(pendingSubmits) : SubmitRejected(i)
    \/ RetakeQuiz
    \/ \E button \in {"header", "results"} : CloseQuizModal(button)
    \/ OverlayClick
    \/ EscapeKey
    \/ ResetQuiz
    \/ RevalidateQuizAttempt
    \/ \E refreshed \in BOOLEAN : RevalidateQuizAttemptSucceeded(refreshed)
    \/ RevalidateQuizAttemptFailed
    \/ \E hasAttemptId \in BOOLEAN : RevalidateQuiz(hasAttemptId)
    \/ \E shape \in RevalidationShapes, newScore \in RevalidatedScores :
          RevalidateQuizSucceeded(shape, newScore)
    \/ RevalidateQuizFailed
    \/ ShowEnhancedQuizResults

SpecRevalidate == Init /\ [][NextRevalidate]_vars

\* ------------------------------------------------------- claim vocabulary
\* The session is Idle: the fields as the constructor and resetQuizState leave them.
Idle == currentQuiz = NoQuiz /\ currentQuestionIndex = 0 /\ userAnswers = <<>>

\* A quiz is loaded and its modal is open.
InSession == currentQuiz # NoQuiz /\ modalActive

\* N slots, all holding the unanswered sentinel.
AllNull(quiz) == ArrayFill(Length(quiz), Null)

\* The position (0-based) of the question with this id in the quiz.
PositionOf(quiz, id) ==
    CHOOSE k \in 0..(Length(quiz) - 1) : Questions(quiz)[k + 1].id = id

\* ----------------------------------------------------------------- C1
\* C1: while a loaded quiz is open, userAnswers has exactly N slots and every
\* slot no answer setter wrote holds null.
C1_LengthNAndUnansweredNull ==
    InSession =>
        /\ Len(userAnswers) = Length(currentQuiz)
        /\ \A k \in 0..(Len(userAnswers) - 1) :
              k \notin touched => ArrayGet(userAnswers, k) = Null

\* ----------------------------------------------------------------- C2
\* With a quiz loaded the index is a position of the quiz.
C2_IndexInRange ==
    currentQuiz # NoQuiz => currentQuestionIndex \in 0..(Length(currentQuiz) - 1)

\* nextQuestion at N-1 and previousQuestion at 0 change neither the session
\* nor the page and return normally.
C2_BoundaryNoOp ==
    /\ (currentQuiz # NoQuiz /\ NextCall
          /\ currentQuestionIndex = Length(currentQuiz) - 1)
       => (UNCHANGED <<session, dom>> /\ outcome' = "noop")
    /\ (currentQuiz # NoQuiz /\ PreviousCall /\ currentQuestionIndex = 0)
       => (UNCHANGED <<session, dom>> /\ outcome' = "noop")

\* C2: with a quiz loaded the index stays in [0, N-1]; nextQuestion at N-1 and
\* previousQuestion at 0 change nothing and throw nothing, however often they
\* are repeated.
C2_NavigationStaysInRange == [] C2_IndexInRange /\ [][C2_BoundaryNoOp]_vars

\* C2 witness: nextQuestion has been invoked at the last question of a quiz
\* with several.
C2_Witness ==
    /\ InSession
    /\ modalBody = "quiz"
    /\ Length(currentQuiz) > 1
    /\ currentQuestionIndex = Length(currentQuiz) - 1
    /\ outcome = "noop"

C4_LoadedStartsWithNulls ==
    [][\A quizId \in QuizIds :
          TakeQuizLoaded(quizId) =>
              /\ modalActive' /\ modalBody' = "quiz"
              /\ currentQuiz' = quizId
              /\ currentQuestionIndex' = 0
              /\ userAnswers' = AllNull(quizId)]_vars

\* ----------------------------------------------------------------- C5
\* The entries of request r are the non-null slots of the draft it was built
\* from, each with its question's id, in ascending question order.
RequestMatchesDraft(r) ==
    LET answered == {k \in 0..(Length(r.quiz) - 1) : ArrayGet(r.atAnswers, k) # Null}
    IN  /\ Len(r.answers) = Cardinality(answered)
        /\ \A k \in answered :
              \E j \in 1..Len(r.answers) :
                  r.answers[j] = [question_id |-> Questions(r.quiz)[k + 1].id,
                                  selected_option |-> ArrayGet(r.atAnswers, k)]
        /\ \A j, l \in 1..Len(r.answers) :
              j < l => PositionOf(r.quiz, r.answers[j].question_id)
                         < PositionOf(r.quiz, r.answers[l].question_id)

\* C5: a request holds one entry per slot that was not null at the submit
\* event, in ascending question order, pairing the question's id with the slot.
C5_RequestHoldsAnsweredSlots ==
    \A i \in 1..Len(pendingSubmits) : RequestMatchesDraft(pendingSubmits[i])

\* C5 witness: a request in flight whose draft had a null slot beside
\* option 0 or the empty string.
C5_Witness ==
    \E i \in 1..Len(pendingSubmits) :
        LET draft == pendingSubmits[i].atAnswers IN
        /\ \E k \in 1..Len(draft) : draft[k] = Null
        /\ \E k \in 1..Len(draft) : draft[k] \in {Num(0), Str(<<>>)}

\* ----------------------------------------------------------------- C6
\* C6: a slot goes from null to a value only in a step of an answer setter
\* on that question.
C6_OnlySettersLeaveNull ==
    [][\A k \in 0..(Len(userAnswers) - 1) :
          (k < Len(userAnswers')
             /\ ArrayGet(userAnswers, k) = Null
             /\ ArrayGet(userAnswers', k) # Null)
          => (k = currentQuestionIndex /\ k \in touched'
                /\ UNCHANGED <<currentQuiz, currentQuestionIndex>>)]_vars

\* ----------------------------------------------------------------- C7
\* C7: when a grading call fails, the quiz, the index and every slot are as
\* they were at the submit event, the form is usable with Submit shown, and
\* the error has been notified.
C7_FailedSubmitRestoresDraft ==
    [][\A i \in 1..Len(pendingSubmits) :
          SubmitFailed(i) =>
              /\ currentQuiz' = pendingSubmits[i].quiz
              /\ currentQuestionIndex' = pendingSubmits[i].atIndex
              /\ userAnswers' = pendingSubmits[i].atAnswers
              /\ modalActive' /\ modalBody' = "quiz"
              /\ navButtons'.submitDisplayed
              /\ outcome' = "notified"]_vars

\* ----------------------------------------------------------------- C8
\* C8: retakeQuiz keeps the quiz, sets the index to 0 and userAnswers to N
\* null slots, and shows the quiz form.
C8_RetakeStartsWithNulls ==
    [][(RetakeQuiz /\ currentQuiz # NoQuiz) =>
          /\ currentQuiz' = currentQuiz
          /\ currentQuestionIndex' = 0
          /\ userAnswers' = AllNull(currentQuiz)
          /\ modalBody' = "quiz"]_vars

\* ----------------------------------------------------------------- C9
\* C9: once the modal is closed and no reset is left pending, the session is Idle.
C9_ClosedMeansIdle ==
    (~modalActive /\ resetTimers = 0) => Idle

\* ---------------------------------------------------------------- C10
\* C10: while the reset of a close is pending no quiz is open, so a reset
\* never runs on a session started after the close.
C10_NoSessionBeforePendingReset ==
    resetTimers > 0 => ~InSession

\* ---------------------------------------------------------------- C11
\* C11: a grading response that succeeds after the modal was closed is
\* discarded: it leaves the session Idle and shows no results view.
C11_LateGradeDiscarded ==
    [][\A i \in 1..Len(pendingSubmits), correct \in 0..2, shape \in ResultShapes :
          (SubmitSucceeded(i, correct, shape) /\ ~modalActive) =>
              (Idle' /\ modalBody' # "results")]_vars

\* ---------------------------------------------------------------- C12
\* C12: the response of a load that was superseded, by a close of the modal or
\* by a newer takeQuiz, sets neither currentQuiz nor userAnswers nor the modal.
C12_SupersededLoadNotApplied ==
    [][\A quizId \in QuizIds :
          (TakeQuizLoaded(quizId) /\ superseded'[quizId] < superseded[quizId]) =>
              UNCHANGED <<currentQuiz, userAnswers, modalActive, dom>>]_vars

\* ---------------------------------------------------------------- C13
\* A navigation or answer-setting event of the quiz form.
FormEvent ==
    \/ NextClick
    \/ PreviousClick
    \/ \E answerIndex \in 0..1 : SelectAnswer(answerIndex)
    \/ \E value \in RawTexts : SelectTextAnswer(value)
    \/ \E blankIndex \in 0..1, value \in RawTexts : SelectFillInAnswer(blankIndex, value)

\* C13: while a load or a submission is in flight, no navigation or
\* answer-setting event changes currentQuestionIndex or userAnswers.
C13_NoFormEventDuringFlight ==
    [][(LoadsInFlight + Len(pendingSubmits) > 0 /\ FormEvent) =>
          UNCHANGED <<currentQuestionIndex, userAnswers>>]_vars

\* ---------------------------------------------------------------- C14
\* C14: when a load fails the error has been notified and the session is
\* Idle, whatever was open when takeQuiz was called.
C14_FailedLoadEndsIdle ==
    [][\A quizId \in QuizIds :
          TakeQuizFailed(quizId) => (Idle' /\ outcome' = "notified")]_vars

\* ---------------------------------------------------------------- C15
\* C15: a load whose payload makes takeQuiz throw leaves the session Idle
\* and opens no modal.
C15_FailedDecodeIsAtomic ==
    [][\A quizId \in AllQuizIds :
          (TakeQuizLoaded(quizId) /\ outcome' = "caught") =>
              (Idle' /\ modalActive' = modalActive)]_vars

\* ---------------------------------------------------------------- C16
\* A question of an unknown type, or a multiple-choice question without options.
MalformedQuestion(question) ==
    \/ question.type \notin {"multiple-choice", "true-false", "short-answer",
                             "fill-in-blank"}
    \/ question.type = "multiple-choice" /\ question.options = <<>>

HasMalformedQuestion(quiz) ==
    \E k \in 1..Length(quiz) : MalformedQuestion(Questions(quiz)[k])

\* C16: no quiz with a malformed question is ever in progress, and no
\* submission of such a quiz is in flight.
C16_MalformedQuizRejected ==
    /\ ~(currentQuiz # NoQuiz /\ HasMalformedQuestion(currentQuiz)
           /\ modalActive /\ modalBody = "quiz")
    /\ \A i \in 1..Len(pendingSubmits) : ~HasMalformedQuestion(pendingSubmits[i].quiz)

\* ---------------------------------------------------------------- C17
\* C17: a grading response of neither known shape is reported as an error
\* and changes nothing in the modal body.
C17_UnknownShapeReported ==
    [][\A i \in 1..Len(pendingSubmits), correct \in 0..2 :
          SubmitSucceeded(i, correct, "neither") =>
              (UNCHANGED dom /\ outcome' = "notified")]_vars

\* ---------------------------------------------------------------- C18
\* C18: a submit event that directly follows a rejected submission sends no
\* request.
C18_NoResubmitAfterRejection ==
    [][(outcome = "rejected" /\ SubmitQuiz) =>
          pendingSubmits' = pendingSubmits]_vars

\* ---------------------------------------------------------------- C19
\* A user event that sends a request: takeQuiz, submitQuiz, revalidateQuizAttempt,
\* revalidateQuiz.
RequestEvent ==
    \/ \E quizId \in QuizIds : TakeQuiz(quizId)
    \/ SubmitQuiz
    \/ RevalidateQuizAttempt
    \/ \E hasAttemptId \in BOOLEAN : RevalidateQuiz(hasAttemptId)

\* The arrival of a response, successful or not.
ResponseStep ==
    \/ \E quizId \in QuizIds : TakeQuizLoaded(quizId) \/ TakeQuizFailed(quizId)
    \/ \E i \in 1..Len(pendingSubmits) :
          \/ \E correct \in 0..2, shape \in ResultShapes : SubmitSucceeded(i, correct, shape)
          \/ SubmitFailed(i)
          \/ SubmitRejected(i)
    \/ \E refreshed \in BOOLEAN : RevalidateQuizAttemptSucceeded(refreshed)
    \/ RevalidateQuizAttemptFailed
    \/ \E shape \in RevalidationShapes, newScore \in RevalidatedScores :
          RevalidateQuizSucceeded(shape, newScore)
    \/ RevalidateQuizFailed

\* The requests in flight grow only in the step of a user event that sends a
\* request, and then by one of that event's kind; the step that handles a
\* response, failed ones included, takes that request out and sends none.
C19_RequestAccounting ==
    /\ RequestsInFlight' > RequestsInFlight =>
          (RequestEvent /\ RequestsInFlight' = RequestsInFlight + 1)
    /\ Len(pendingSubmits') > Len(pendingSubmits) => SubmitQuiz
    /\ LoadsInFlight' > LoadsInFlight => \E quizId \in QuizIds : TakeQuiz(quizId)
    /\ RevalidationsInFlight' > RevalidationsInFlight =>
          (RevalidateQuizAttempt \/ RevalidateQuiz(TRUE))
    /\ ResponseStep =>
          /\ RequestsInFlight' = RequestsInFlight - 1
          /\ Len(pendingSubmits') <= Len(pendingSubmits)
          /\ LoadsInFlight' <= LoadsInFlight
          /\ RevalidationsInFlight' <= RevalidationsInFlight

\* C19: no request is sent without a user event of its kind: the engine never
\* retries a load, a submission or a re-validation on its own.
C19_NeverRetriesOnItsOwn == [][C19_RequestAccounting]_vars

\* C19 witness: a submission has just failed, the form is still open and
\* nothing is in flight.
C19_Witness ==
    /\ outcome \in {"notified", "rejected"}
    /\ InSession
    /\ modalBody = "quiz"
    /\ navButtons.submitDisplayed
    /\ RequestsInFlight = 0

\* The per-blank arrays held for the fill-in-blank questions of the quiz in
\* progress have no more entries than their question has blanks.
SlotsWithinBlanks ==
    QuestionsReadable =>
        \A k \in 1..Len(userAnswers) :
            (k <= Length(currentQuiz) /\ IsArray(userAnswers[k])
                /\ Questions(currentQuiz)[k].type = "fill-in-blank")
            => Len(userAnswers[k].a) <= BlankCount(Questions(currentQuiz)[k])

\* C20: selectFillInAnswer(blankIndex, value) with blankIndex outside
\* [0, blankCount-1] leaves the answers unchanged (it fails), and the
\* per-blank array of a fill-in-blank question never has more entries than the
\* question has blanks.
C20_OutOfRangeBlankFails ==
    [][\A blankIndex \in CallBlankIndexes, value \in RawTexts :
          SelectFillInCall(blankIndex, value) =>
              /\ blankIndex >= BlankCount(Rendered) => UNCHANGED userAnswers
              /\ SlotsWithinBlanks']_vars

\* C21: after selectFillInAnswer on a fill-in-blank question, the first call
\* on a slot that was not an array included, the slot is an array as long as
\* the question has blanks, and only the addressed blank has changed: the
\* other slots are as before, and so are the other blanks of a slot that was
\* an array.
C21_FillInSlotHasBlankCount ==
    [][\A blankIndex \in 0..1, value \in RawTexts :
          SelectFillInAnswer(blankIndex, value) =>
              LET old == ArrayGet(userAnswers, currentQuestionIndex)
                  new == ArrayGet(userAnswers', currentQuestionIndex)
              IN  /\ IsArray(new)
                  /\ Len(new.a) = BlankCount(Rendered)
                  /\ \A k \in 0..(Len(userAnswers') - 1) :
                        k # currentQuestionIndex =>
                            ArrayGet(userAnswers', k) = ArrayGet(userAnswers, k)
                  /\ IsArray(old) =>
                        \A j \in 0..(Len(new.a) - 1) :
                            j # blankIndex => ArrayGet(new.a, j) = ArrayGet(old.a, j)]_vars

\* `text` is `value` without the whitespace around it: what is cut off at
\* either end is whitespace only, and what is left neither starts nor ends
\* with whitespace.
IsTrimOf(value, text) ==
    /\ text = <<>> \/ (Head(text) # " " /\ text[Len(text)] # " ")
    /\ \E from \in 1..(Len(value) + 1) :
          /\ from + Len(text) - 1 <= Len(value)
          /\ SubSeq(value, from, from + Len(text) - 1) = text
          /\ \A k \in 1..Len(value) :
                (k < from \/ k >= from + Len(text)) => value[k] = " "

\* C22: selectTextAnswer(value) stores value without its surrounding
\* whitespace at the current index and changes no other slot; a value that is
\* empty or whitespace only is stored as the empty string, which is not the
\* unanswered null, and a submit sends every slot that holds the empty string.
C22_TextAnswerTrimmedAndSent ==
    [][/\ \A value \in RawTexts :
             SelectTextAnswer(value) =>
                 LET new == ArrayGet(userAnswers', currentQuestionIndex)
                 IN  /\ new.t = "string"
                     /\ IsTrimOf(value, new.s)
                     /\ new # Null
                     /\ (\A c \in 1..Len(value) : value[c] = " ") => new = Str(<<>>)
                     /\ \A k \in 0..(Len(userAnswers') - 1) :
                           k # currentQuestionIndex =>
                               ArrayGet(userAnswers', k) = ArrayGet(userAnswers, k)
       /\ (SubmitQuiz /\ Len(pendingSubmits') > Len(pendingSubmits)) =>
             \A k \in 0..(Length(currentQuiz) - 1) :
                 ArrayGet(userAnswers, k) = Str(<<>>) =>
                     \E j \in 1..Len(pendingSubmits'[Len(pendingSubmits')].answers) :
                         pendingSubmits'[Len(pendingSubmits')].answers[j] =
                             [question_id |-> Questions(currentQuiz)[k + 1].id,
                              selected_option |-> Str(<<>>)]]_vars

\* C22 witness: a request in flight carries the empty string for a
\* short-answer question, typed as whitespace only.
C22_Witness ==
    \E i \in 1..Len(pendingSubmits) :
        \E j \in 1..Len(pendingSubmits[i].answers) :
            /\ pendingSubmits[i].answers[j].selected_option = Str(<<>>)
            /\ \E k \in 1..Length(pendingSubmits[i].quiz) :
                  /\ Questions(pendingSubmits[i].quiz)[k].type = "short-answer"
                  /\ Questions(pendingSubmits[i].quiz)[k].id =
                        pendingSubmits[i].answers[j].question_id

\* The comparison on display is the one the response (shape, newScore) gives.
ShowsRevalidation(shape, newScore) ==
    /\ modalBody = "revalidation"
    /\ resultsShown.oldScore =
          (IF shape = "revalidation" THEN Num(HeldScore) ELSE Undefined)
    /\ resultsShown.newScore =
          (IF shape = "revalidation" THEN Num(newScore) ELSE Undefined)

IsRoundedShare(n, correct, total) ==
    /\ n \in 0..100
    /\ 2 * total * n <= 200 * correct + total
    /\ 200 * correct + total < 2 * total * (n + 1)

\* C24: the score shown for an attempt is round(100 * correct / N), an
\* integer in 0..100, N being the number of all questions of the submitted
\* quiz and correct the number of correct answers among the answered ones,
\* whatever slots were answered; the count shown beside it is that N.
C24_ScoreIsRoundedShare ==
    [][\A i \in 1..Len(pendingSubmits), correct \in 0..2, shape \in ResultShapes :
          (SubmitSucceeded(i, correct, shape) /\ modalBody' = "results") =>
              /\ resultsShown'.score.t = "number"
              /\ IsRoundedShare(resultsShown'.score.n, correct,
                                Length(pendingSubmits[i].quiz))
              /\ resultsShown'.correct = Num(correct)
              /\ resultsShown'.total = Num(Length(pendingSubmits[i].quiz))]_vars

\* A slot that holds nothing the user entered: null, or the empty strings
\* renderCurrentQuestion allocates for the blanks of a displayed question.
HoldsNoAnswer(slot) ==
    \/ slot = Null
    \/ IsArray(slot) /\ \A j \in 1..Len(slot.a) : slot.a[j] = Str(<<>>)

NoAnswersHeld == \A k \in 1..Len(userAnswers) : HoldsNoAnswer(userAnswers[k])

\* C25: answers leave the client only through a submit: a request that
\* carries answers appears only in a step of submitQuiz, taken on the open
\* form, and carries the answers held at that moment; closing or retaking
\* discards the unsent answers: retakeQuiz leaves no answer in userAnswers,
\* and whenever the form opens again after a close it opens with none.
C25_AnswersLeaveOnlyBySubmit ==
    [][/\ Len(pendingSubmits') > Len(pendingSubmits) =>
             /\ SubmitQuiz
             /\ modalActive
             /\ pendingSubmits'[Len(pendingSubmits')].atAnswers = userAnswers
       /\ \A i \in 1..Len(pendingSubmits) :
             Len(pendingSubmits') >= Len(pendingSubmits) => pendingSubmits'[i] = pendingSubmits[i]
       /\ (RetakeQuiz /\ modalBody' = "quiz") => NoAnswersHeld'
       /\ (~modalActive /\ modalActive') => NoAnswersHeld']_vars

\* C25 witness: a form is open again after a close, whose deferred reset is
\* still pending: a quiz is in progress, no answer is held and no request
\* with answers is in flight.
C25_Witness ==
    /\ InSession
    /\ modalBody = "quiz"
    /\ NoAnswersHeld
    /\ pendingSubmits = <<>>
    /\ resetTimers > 0

\* `clean` is `text` without one leading instruction prefix, matched without
\* regard to case, and trimmed; or `text` itself when no prefix leads it.
OnePrefixStripped(text, clean) ==
    LET leading == {k \in 1..Len(fillInPrefixes) :
                       StartsWith(ToLowerCase(text), ToLowerCase(fillInPrefixes[k]))}
    IN  IF leading = {} THEN clean = text
        ELSE \E k \in leading :
                clean = Trim(SubSeq(text, Len(fillInPrefixes[k]) + 1, Len(text)))

\* The maximal runs of one or more underscores in `text`.
UnderscoreRuns(text) ==
    {k \in 1..Len(text) : text[k] = "_" /\ (k = 1 \/ text[k - 1] # "_")}

\* `text` without its underscores.
RECURSIVE WithoutUnderscores(_)
WithoutUnderscores(text) ==
    IF text = <<>> THEN <<>>
    ELSE IF Head(text) = "_" THEN WithoutUnderscores(Tail(text))
         ELSE <<Head(text)>> \o WithoutUnderscores(Tail(text))

RECURSIVE Concat(_)
Concat(parts) == IF parts = <<>> THEN <<>> ELSE Head(parts) \o Concat(Tail(parts))

ImprovingText == "Great improvement trend! Keep it up!"
DecliningText == "Scores are declining. Take a break and review."

Emitted(list, text) == \E k \in 1..Len(list) : list[k].text = text

\* C28: for analytics with at least one attempt, generateInsights emits the
\* declining-scores insight exactly when improvement_trend < -5 and the
\* improvement insight exactly when improvement_trend > 5; never both, and
\* neither for a trend in [-5, 5].
C28_TrendInsightByThreshold ==
    \A c \in 1..Len(pureCall.results) :
        (/\ pureCall.method = "generateInsights"
         /\ pureCall.argument # Null
         /\ pureCall.argument.total_attempts.t = "number"
         /\ pureCall.argument.total_attempts.n >= 1) =>
            LET trend == pureCall.argument.improvement_trend
                list == pureCall.results[c]
            IN  /\ Emitted(list, DecliningText) <=> (trend.t = "number" /\ trend.n < -5)
                /\ Emitted(list, ImprovingText) <=> (trend.t = "number" /\ trend.n > 5)
                /\ ~(Emitted(list, DecliningText) /\ Emitted(list, ImprovingText))

\* C28 witness: a trend of exactly -5, at the threshold, was evaluated for a
\* quiz with attempts, and no trend insight came out.
C28_Witness ==
    /\ pureCall.method = "generateInsights"
    /\ pureCall.results # <<>>
    /\ pureCall.argument # Null
    /\ pureCall.argument.total_attempts = Num(10)
    /\ pureCall.argument.improvement_trend = Num(-5)
    /\ ~Emitted(pureCall.results[1], DecliningText)

\* The place of an attempt among the attempts of the list by submitted_at,
\* 1 for the earliest.
RankBySubmittedAt(attempts, id) ==
    LET self == CHOOSE i \in 1..Len(attempts) : attempts[i].id = id
    IN  Cardinality({i \in 1..Len(attempts) :
                        attempts[i].submitted_at <= attempts[self].submitted_at})

\* C29: the history view does not depend on the order in which the attempts
\* are returned: whatever the order of the list, every attempt gets the
\* number its submitted_at gives it among the attempts.
C29_NumberingFollowsSubmittedAt ==
    \A c \in 1..Len(pureCall.results) :
        (pureCall.method = "history" /\ pureCall.results[c].kind = "renderQuizHistory") =>
            \A i \in 1..Len(pureCall.results[c].numbers) :
                pureCall.results[c].numbers[i].attemptNumber =
                    RankBySubmittedAt(pureCall.argument, pureCall.results[c].numbers[i].id)

\* The mean of the scores rounded to the nearest integer.
IsRoundedMean(n, scores) ==
    /\ 2 * Len(scores) * n <= 2 * SumOf(scores) + Len(scores)
    /\ 2 * SumOf(scores) + Len(scores) < 2 * Len(scores) * (n + 1)

\* What a printed number is worth, in tenths.
InTenths(printed) ==
    10 * printed.whole + (IF printed.decimals = <<>> THEN 0 ELSE printed.decimals[1])

\* C30: over a non-empty attempt history the summary reports as bestScore the
\* maximum score and as avgScore the mean score rounded to an integer: 90 and
\* 73 for the scores 60, 70, 90.
C30_BestAndRoundedAverage ==
    \A c \in 1..Len(pureCall.results) :
        (/\ pureCall.method = "history"
         /\ pureCall.results[c].kind = "exportQuizHistory"
         /\ pureCall.argument # <<>>) =>
            LET scores == [i \in 1..Len(pureCall.argument) |-> pureCall.argument[i].score]
                summary == pureCall.results[c].summary
            IN  /\ summary.bestScore.decimals = <<>>
                /\ \A i \in 1..Len(scores) : scores[i] <= summary.bestScore.whole
                /\ \E i \in 1..Len(scores) : scores[i] = summary.bestScore.whole
                /\ \E n \in 0..100 :
                      /\ IsRoundedMean(n, scores)
                      /\ InTenths(summary.avgScore) = 10 * n

\* The controls of the form agree with the position in the quiz.
ControlsAgree ==
    LET N == Length(currentQuiz) IN
    /\ navButtons.submitDisplayed <=> (currentQuestionIndex = N - 1)
    /\ navButtons.nextDisplayed <=> (currentQuestionIndex < N - 1)
    /\ navButtons.prevDisabled <=> (currentQuestionIndex = 0)
    /\ questionProgress = <<currentQuestionIndex + 1, N>>

\* C31: whenever a quiz is in progress and a load, retake, next or prev event
\* has been fully processed, Submit is shown iff the index is N-1, Next is
\* shown iff the index is below N-1, Previous is disabled iff the index is 0,
\* and the progress text reads 'index+1 of N'.
C31_ControlsAgreeWithState ==
    [][((\/ \E quizId \in AllQuizIds : TakeQuizLoaded(quizId) /\ outcome' = "ok"
         \/ RetakeQuiz /\ outcome' = "ok"
         \/ NextClick
         \/ PreviousClick)
        /\ InSession' /\ modalBody' = "quiz") => ControlsAgree']_vars

\* A quiz is in progress on the open form.
InProgress == InSession /\ modalBody = "quiz"

\* A loaded quiz of one question or more is in progress.
LoadedInProgress == InProgress /\ Length(currentQuiz) >= 1

\* C32: for every loaded quiz submission is always reachable: Next always
\* moves one question forward, so at most N-1 of them lead to the last
\* question, where Submit is offered; and when the user goes on and submits
\* and the service answers while the modal stays open, a quiz in progress
\* leads to the results view.
C32_SubmissionReachable ==
    /\ [][(NextClick /\ LoadedInProgress) =>
             currentQuestionIndex' = currentQuestionIndex + 1]_vars
    /\ [](LoadedInProgress =>
             /\ currentQuestionIndex <= Length(currentQuiz) - 1
             /\ (currentQuestionIndex = Length(currentQuiz) - 1
                    => navButtons.submitDisplayed))
    /\ (LoadedInProgress ~> (modalBody = "results"))

\* C33: at most one submit request is in flight per session at any time, so
\* one run through a quiz creates at most one attempt on the server.
C33_OneSubmitInFlight == Len(pendingSubmits) <= 1

\* The value has the shape of an answer to the question.
HasAnswerShape(question, value) ==
    CASE question.type = "multiple-choice" ->
           value.t = "number" /\ value.n \in 0..(Len(question.options) - 1)
      [] question.type = "true-false" ->
           value.t = "number" /\ value.n \in {0, 1}
      [] question.type = "short-answer" ->
           value.t = "string"
      [] question.type = "fill-in-blank" ->
           IsArray(value) /\ \A k \in 1..Len(value.a) : value.a[k].t = "string"
      [] OTHER -> FALSE

NumberWithin(v, lo, hi) == v.t = "number" /\ v.n >= lo /\ v.n <= hi

\* Aggregates with one attempt or more that meet none of the thresholds.
\* A missing aggregate meets no threshold either.
TriggersNoRule(analytics) ==
    /\ analytics # Null
    /\ NumberWithin(analytics.total_attempts, 2, 10)
    /\ analytics.best_score = Undefined \/ NumberWithin(analytics.best_score, 70, 84)
    /\ analytics.improvement_trend = Undefined
          \/ NumberWithin(analytics.improvement_trend, -5, 5)
    /\ analytics.consistency_score = Undefined
          \/ NumberWithin(analytics.consistency_score, 50, 79)
    /\ analytics.detailed_attempts \in {Undefined, Num(0)}

\* One insight, of type info.
OneInformational(list) == Len(list) = 1 /\ list[1].type = "info"

\* C35: generateInsights returns a non-empty list for every input; null
\* analytics, total_attempts = 0 and aggregates with attempts that meet none
\* of the thresholds each yield exactly one informational insight.
C35_InsightsNeverEmpty ==
    pureCall.method = "generateInsights" =>
        \A c \in 1..Len(pureCall.results) :
            LET analytics == pureCall.argument
                list == pureCall.results[c]
            IN  /\ Len(list) >= 1
                /\ (analytics = Null \/ analytics.total_attempts = Num(0)
                       \/ TriggersNoRule(analytics)) => OneInformational(list)

\* C35 witness: aggregates of ten attempts that meet no threshold were
\* evaluated and the fallback insight came out.
C35_Witness ==
    /\ pureCall.method = "generateInsights"
    /\ pureCall.results # <<>>
    /\ TriggersNoRule(pureCall.argument)
    /\ pureCall.argument.total_attempts = Num(10)
    /\ Emitted(pureCall.results[1], "Keep taking attempts to unlock more insights!")

\* The category an insight belongs to, by its icon: 1 best score, 2 trend,
\* 3 consistency, 4 attempt count, 5 AI feedback; 0 for the two notices.
CategoryOf(insight) ==
    CASE insight.icon \in {"fa-star", "fa-thumbs-up", "fa-book-open"} -> 1
      [] insight.icon \in {"fa-arrow-up", "fa-arrow-down"} -> 2
      [] insight.icon \in {"fa-check-circle", "fa-exclamation-triangle"} -> 3
      [] insight.icon \in {"fa-play", "fa-medal"} -> 4
      [] insight.icon = "fa-robot" -> 5
      [] OTHER -> 0

\* C36: for analytics with at least one attempt generateInsights returns at
\* most one insight from each of the five categories, in the order best
\* score, trend, consistency, attempt count, AI feedback; a best score in
\* [70, 85) produces no best-score insight and the list never has more than
\* five entries.
C36_OnePerCategoryInOrder ==
    (/\ pureCall.method = "generateInsights"
     /\ pureCall.argument # Null
     /\ AtLeast(pureCall.argument.total_attempts, 1)) =>
        \A c \in 1..Len(pureCall.results) :
            LET list == pureCall.results[c] IN
            /\ \A i, j \in 1..Len(list) :
                  (i < j /\ CategoryOf(list[i]) # 0 /\ CategoryOf(list[j]) # 0)
                      => CategoryOf(list[i]) < CategoryOf(list[j])
            /\ NumberWithin(pureCall.argument.best_score, 70, 84)
                  => \A i \in 1..Len(list) : CategoryOf(list[i]) # 1
            /\ Len(list) <= 5

\* C36 witness: a best score of 84 with one attempt gave four insights, of
\* the trend, the consistency, the attempt count and the AI feedback.
C36_Witness ==
    /\ pureCall.method = "generateInsights"
    /\ pureCall.results # <<>>
    /\ pureCall.argument # Null
    /\ pureCall.argument.total_attempts = Num(1)
    /\ pureCall.argument.best_score = Num(84)
    /\ Len(pureCall.results[1]) = 4
    /\ \A k \in 1..4 : CategoryOf(pureCall.results[1][k]) = k + 1

\* C37: for the same attempts list the number an attempt gets in the history
\* view equals the number it gets in the exported history, for every attempt
\* and every list length.
C37_ViewAndExportNumbersAgree ==
    pureCall.method = "history" =>
        \A c, e \in 1..Len(pureCall.results) :
            (/\ pureCall.results[c].kind = "renderQuizHistory"
             /\ pureCall.results[e].kind = "exportQuizHistory") =>
                \A i \in 1..Len(pureCall.results[c].numbers),
                   j \in 1..Len(pureCall.results[e].numbers) :
                    pureCall.results[c].numbers[i].id = pureCall.results[e].numbers[j].id
                        => pureCall.results[c].numbers[i].attemptNumber
                             = pureCall.results[e].numbers[j].attemptNumber

\* C38: in the history view an attempt with a detailed breakdown and a
\* revalidated_at time offers no re-validate action and every other attempt
\* offers exactly one, so the re-validation of a detailed attempt is started
\* from the history at most once until the history is loaded again.
C38_RevalidateOfferedOnce ==
    pureCall.method = "attempts" =>
        \A i \in 1..Len(pureCall.argument) :
            LET attempt == pureCall.argument[i]
                detailed == /\ attempt.validation_results # Null
                            /\ Truthy(attempt.validation_results.validation_results)
            IN  /\ \A c \in 1..Len(pureCall.results) :
                      (/\ pureCall.results[c].kind = "createAttemptItem"
                       /\ pureCall.results[c].id = attempt.id) =>
                          pureCall.results[c].revalidateButtons =
                              (IF detailed /\ attempt.revalidated_at # Null THEN 0 ELSE 1)
                /\ detailed => Cardinality(Started(attempt.id)) <= 1

\* A step of revalidateQuiz or revalidateQuizAttempt: the call up to its await
\* or the handling of its response.
RevalidationStep ==
    \/ RevalidateQuizAttempt
    \/ \E refreshed \in BOOLEAN : RevalidateQuizAttemptSucceeded(refreshed)
    \/ RevalidateQuizAttemptFailed
    \/ \E hasAttemptId \in BOOLEAN : RevalidateQuiz(hasAttemptId)
    \/ \E shape \in RevalidationShapes, newScore \in RevalidatedScores :
          RevalidateQuizSucceeded(shape, newScore)
    \/ RevalidateQuizFailed

\* C39: re-validation never touches the quiz-taking draft: revalidateQuiz and
\* revalidateQuizAttempt, succeeding or failing and whenever the response
\* arrives, leave currentQuiz, currentQuestionIndex and userAnswers unchanged
\* and never replace the view of a quiz in progress; on failure the score
\* shown before stays the one shown.
C39_RevalidationLeavesDraft ==
    [][RevalidationStep =>
          /\ UNCHANGED <<currentQuiz, currentQuestionIndex, userAnswers>>
          /\ InProgress =>
                UNCHANGED <<modalBody, quizContainer, navButtons, questionProgress>>
          /\ (RevalidateQuizFailed \/ RevalidateQuizAttemptFailed) =>
                UNCHANGED <<modalBody, resultsShown>>]_vars
====
